---- MODULE Spec2Model ----
(***************************************************************************)
(* Upload lifecycle and case-file consistency of the cellebrite-api        *)
(* backend: getPresignedUrl, confirmUpload, updateCaseFileStats,           *)
(* deleteFile and cleanupExpiredUploads (upload handler, lines 500-1297 of *)
(* src/src/utils/response.js) and updateCase, bulkUpdateCases and          *)
(* updateCaseMetadata (src/src/handlers/case.js) running as stateless      *)
(* invocations, one at a time or concurrently, against the Files table,    *)
(* the Cases table and the S3 bucket.  Every                               *)
(* `await` of a handler is one step of its invocation; the synchronous     *)
(* code between two awaits belongs to the step that precedes it.           *)
(* Time is counted in seconds.                                             *)
(***************************************************************************)
EXTENDS Integers, FiniteSets, Sequences, TLC

\* ---------------------------------------------------------------- bounds
MaxTicks == 2        \* the clock stops after this many ticks
MaxSize == 2         \* largest actualFileSize a client reports
MaxOps == 2          \* requests served in one behaviour

\* ------------------------------------------------------- program constants
expiresIn == 3600
maxFileSize == 104857600

TickLen == expiresIn \* the clock advances by one session lifetime
NoTime == 0 - 1      \* attribute absent (uploadedAt / expiresAt not set)

Invs == {1, 2}       \* the invocations (Lambda instances) that may run at once
FileIds == {"f1", "f2", "f3"}   \* f3 is an id no session was created for
FileKeys == {"k1", "k2"}
CaseIds == {"c1", "c2"}          \* the cases that exist at the start
NewCaseIds == {"c3"}             \* an id no case has at the start
CaptureTypes == {"screenshot", "video"}
Sizes == 1..MaxSize
MaxTime == MaxTicks * TickLen

VARIABLES
  files,     \* FILES_TABLE: id -> item
  cases,     \* CASES_TABLE: id -> item
  s3,        \* S3_BUCKET: the keys that hold an object
  now,       \* wall clock (Date.now()), seconds
  inv,       \* the invocations: handler, position, locals
  response,  \* what the handler that returned last has returned
  synced,    \* history: the cases whose aggregates were written by a
             \* recomputation that read the Files table as it is now
  ops,       \* number of requests received so far
  concurrency \* how many requests the deployment serves at once

vars == <<files, cases, s3, now, inv, response, synced, ops, concurrency>>

\* ------------------------------------------------------------ table items
NoFile == [exists |-> FALSE, fileKey |-> "none", caseId |-> "none",
           captureType |-> "none", status |-> "none", fileSize |-> 0,
           uploadedAt |-> NoTime, expiresAt |-> NoTime]

\* the item getPresignedUrl stores (pendingUpload)
pendingUpload(fileKey, caseId, captureType, fileSize, t) ==
  [exists |-> TRUE, fileKey |-> fileKey, caseId |-> caseId,
   captureType |-> captureType, status |-> "pending", fileSize |-> fileSize,
   uploadedAt |-> NoTime, expiresAt |-> t + expiresIn]

\* no item under this id
NoCase ==
  [exists |-> FALSE, totalScreenshots |-> 0, totalVideos |-> 0,
   totalFileSize |-> 0, lastActivity |-> NoTime, createdAt |-> NoTime,
   updatedAt |-> NoTime]

\* the item createCase stores (newCase)
newCase(t) ==
  [exists |-> TRUE, totalScreenshots |-> 0, totalVideos |-> 0,
   totalFileSize |-> 0, lastActivity |-> t, createdAt |-> t, updatedAt |-> t]

\* ------------------------------------------------------------- responses
\* op, fileId and request name the request that is answered
\* listed, nullUrls, summary: the body of getCaseFiles (the ids of
\* paginatedFiles, those with downloadUrl null, and totalFiles, screenshots,
\* videos, totalSize); summary is also the metadata getCase returns
\* (totalScreenshots, totalVideos, totalFileSize, lastActivity)
NoResp == [op |-> "none", fileId |-> "none", status |-> 0, error |-> "none",
           cleaned |-> 0, request |-> <<>>, listed |-> <<>>, nullUrls |-> {},
           summary |-> <<0, 0, 0, 0>>]
createResponse(statusCode, error) ==
  [NoResp EXCEPT !.status = statusCode, !.error = error]
Ok200 == createResponse(200, "none")
\* cleanupExpiredUploads returns its counter
Cleaned(n) == [Ok200 EXCEPT !.cleaned = n]
\* an exception leaves the function (no handler response)
Thrown == createResponse(0, "thrown")
\* handleError of a transient store failure (throughput / timeout)
handleError == createResponse(503, "Service temporarily unavailable")
\* handleError of any other exception
handleErrorGeneric == createResponse(500, "Internal server error")

\* --------------------------------------------------------- an invocation
\* op, pc: handler and position; fileId, fileKey, size: the request;
\* recId, recCase, recStatus, recType, recSize: the item read
\* (uploadRecord / fileRecord);
\* at: a Date taken by the step before; scr .. last: the reduction of
\* updateCaseFileStats; found, todo, cur, cleaned: expiredUploads.length
\* and the loop of the reaper;
\* s3Failed: the catch block of deleteFile's S3 delete was entered;
\* fresh (history): no Files item was written since the query of st_query;
\* page, limit, asc, paged, nullUrls: the query string of getCaseFiles, its
\* paginatedFiles and those whose downloadUrl is null;
\* header, user: event.headers.Authorization as split(' ') reads it, and
\* event.user.userId set by requireAuth
Idle == [op |-> "idle", pc |-> "idle", fileId |-> "none", fileKey |-> "none",
         size |-> 0, recId |-> "none", recCase |-> "none",
         recStatus |-> "none", recType |-> "none", recSize |-> 0,
         at |-> NoTime, scr |-> 0, vid |-> 0, tot |-> 0, last |-> NoTime,
         found |-> 0, todo |-> {}, cur |-> "none", curKey |-> "none", cleaned |-> 0,
         s3Failed |-> FALSE, fresh |-> FALSE,
         page |-> 0, limit |-> 0, asc |-> FALSE, paged |-> <<>>,
         nullUrls |-> {}, header |-> <<>>, user |-> "none"]

\* a request goes to the first idle invocation, when the deployment can
\* serve one more; under concurrent service an invocation serves one request
Free(i) ==
  /\ inv[i].pc = "idle"
  /\ \A j \in Invs : j < i => inv[j].pc # "idle"
  /\ Cardinality({j \in Invs : inv[j].pc # "idle"}) < concurrency
  /\ ops < MaxOps
  /\ concurrency > 1 => ops < Cardinality(Invs)

\* invocation i returns r: its locals are dropped
Return(i, r) ==
  /\ inv' = [inv EXCEPT ![i] = Idle]
  /\ response' = [r EXCEPT !.op = inv[i].op, !.fileId = inv[i].fileId]

\* invocation i goes on with the locals l
Goto(i, l) ==
  /\ inv' = [inv EXCEPT ![i] = l]
  /\ UNCHANGED response

\* history: a Files item was written, so what the recomputations in
\* flight have read is no longer the table
Outdated(iv) == [j \in Invs |-> [iv[j] EXCEPT !.fresh = FALSE]]

\* ------------------------------------------------------------ the indexes
\* CaseIdIndex (caseId HASH, uploadedAt RANGE): only items with both keys
CaseIdIndex(fs, c) ==
  {f \in FileIds : fs[f].exists /\ fs[f].caseId = c /\ fs[f].uploadedAt # NoTime}

\* FileKeyIndex (fileKey HASH)
FileKeyIndex(fs, k) == {f \in FileIds : fs[f].exists /\ fs[f].fileKey = k}

\* ------------------------------------------------- updateCaseFileStats
\* QueryCommand on CaseIdIndex with FilterExpression #status = 'completed'
CompletedFiles(fs, c) == {f \in CaseIdIndex(fs, c) : fs[f].status = "completed"}

\* mutant: the reduction counts the files instead of adding their sizes
SumSize_Count(fs, S) == Cardinality(S)

RECURSIVE SumSize(_, _)
\* files.reduce((sum, f) => sum + (f.fileSize || 0), 0)
SumSize(fs, S) ==
  IF S = {} THEN 0
  ELSE LET f == CHOOSE x \in S : TRUE
       IN fs[f].fileSize + SumSize(fs, S \ {f})

\* mutant: the filter on captureType is lost
CountType_All(fs, S, t) == Cardinality(S)

\* files.filter(f => f.captureType === t).length
CountType(fs, S, t) == Cardinality({f \in S : fs[f].captureType = t})

\* files.sort((a, b) => new Date(b.uploadedAt) - new Date(a.uploadedAt))[0].uploadedAt
LatestUploadedAt(fs, S) ==
  CHOOSE t \in {fs[f].uploadedAt : f \in S} : \A f \in S : fs[f].uploadedAt <= t

\* files.length > 0 ? files.sort(...)[0].uploadedAt : new Date().toISOString()
LastActivity(fs, S, t) == IF S # {} THEN LatestUploadedAt(fs, S) ELSE t

\* the case item after SET metadata.totalScreenshots = ..., updatedAt = ...
\* with the reduction of the files S read at time t
StatsWrite(case, fs, S, t) ==
  [case EXCEPT !.totalScreenshots = CountType(fs, S, "screenshot"),
               !.totalVideos = CountType(fs, S, "video"),
               !.totalFileSize = SumSize(fs, S),
               !.lastActivity = LastActivity(fs, S, t),
               !.updatedAt = t]

\* mutant: the declared fileSize of the session is kept
ConfirmWrite_DeclaredSize(rec, t, size) ==
  [rec EXCEPT !.exists = TRUE, !.status = "completed", !.uploadedAt = t]

\* variant: the UpdateExpression does not set #status
ConfirmWrite_NoStatus(rec, t, size) ==
  [rec EXCEPT !.exists = TRUE, !.uploadedAt = t, !.fileSize = size]

\* UpdateCommand SET #status, uploadedAt, fileSize on Key {id}: no
\* ConditionExpression, so it writes whatever the item is now and creates
\* the item when it is gone
ConfirmWrite(rec, t, size) ==
  [rec EXCEPT !.exists = TRUE, !.status = "completed", !.uploadedAt = t,
              !.fileSize = size]

\* ------------------------------------------------------------------ Init
\* The tables and the bucket outlive the handlers.  At time 0 the cases
\* c1 and c2 exist and case c1 has two upload sessions, written as
\* pendingUpload: f1 (declared fileSize 5) has not been uploaded; f2 (no
\* declared fileSize) either has not been uploaded, or was uploaded and
\* confirmed (with a recomputation) at 0.
InitTables ==
  /\ \E t2 \in CaptureTypes, confirmed2 \in BOOLEAN :
       LET p1 == pendingUpload("k1", "c1", "screenshot", 5, 0)
           p2 == pendingUpload("k2", "c1", t2, 0, 0)
           fs == [f \in FileIds |->
                   IF f = "f1" THEN p1
                   ELSE IF f = "f3" THEN NoFile
                   ELSE IF confirmed2 THEN ConfirmWrite(p2, 0, 1) ELSE p2]
       IN /\ files = fs
          /\ cases = [c \in CaseIds \cup NewCaseIds |->
                       IF c \in NewCaseIds THEN NoCase
                       ELSE StatsWrite(newCase(0), fs, CompletedFiles(fs, c), 0)]
          /\ s3 = IF confirmed2 THEN {"k2"} ELSE {}
  /\ now = 0
  /\ inv = [i \in Invs |-> Idle]
  /\ response = NoResp
  /\ synced = {}
  /\ ops = 0

\* one request at a time
Init == InitTables /\ concurrency = 1

\* as many requests at once as there are invocations
InitRace == InitTables /\ concurrency = Cardinality(Invs)

\* --------------------------------------------------------- environment
\* the clock advances
Tick ==
  /\ now + TickLen <= MaxTime
  /\ now' = now + TickLen
  /\ UNCHANGED <<files, cases, s3, inv, response, synced, ops, concurrency>>

\* a client PUTs the object with the signed upload URL of key k; the URL
\* was signed for expiresIn seconds when the session was created (time 0)
ClientUpload(k) ==
  /\ k \notin s3
  /\ now <= expiresIn
  /\ s3' = s3 \cup {k}
  /\ UNCHANGED <<files, cases, now, inv, response, synced, ops, concurrency>>

\* ------------------------------------------------- updateCaseFileStats
\* entered from confirmUpload and deleteFile with pc = "st_query"

\* updateCaseFileStats returned: confirmUpload and deleteFile answer 200
AfterStats(i) == Ok200

\* variant: the parent's catch block answers with handleError
AfterStatsError_Propagates(i) ==
  IF inv[i].op = "updateCaseFileStats" THEN Thrown ELSE handleError

\* updateCaseFileStats threw: confirmUpload and deleteFile log the error
\* and answer 200; a direct caller gets the exception
AfterStatsError(i) ==
  IF inv[i].op = "updateCaseFileStats" THEN Thrown ELSE Ok200

\* updateCaseFileStats(caseId) called on its own
StatsStart(i, c) ==
  /\ Free(i)
  /\ Goto(i, [Idle EXCEPT !.op = "updateCaseFileStats", !.pc = "st_query",
                          !.recCase = c])
  /\ ops' = ops + 1
  /\ UNCHANGED <<files, cases, s3, now, synced, concurrency>>

\* await ddb.send(new QueryCommand(fileParams)) and the reduction after it
StatsQuery(i) ==
  /\ inv[i].pc = "st_query"
  /\ inv[i].recCase # "none"
  /\ LET c == inv[i].recCase
         S == CompletedFiles(files, c)
     IN Goto(i, [inv[i] EXCEPT !.pc = "st_update",
                           !.scr = CountType(files, S, "screenshot"),
                           !.vid = CountType(files, S, "video"),
                           !.tot = SumSize(files, S),
                           !.last = LastActivity(files, S, now),
                           !.at = now, !.fresh = TRUE])
  /\ UNCHANGED <<files, cases, s3, now, synced, ops, concurrency>>

\* the query throws (store failure, or :caseId undefined): the error is
\* rethrown, the parent logs it and returns its success response
StatsQueryFail(i) ==
  /\ inv[i].pc = "st_query"
  /\ Return(i, AfterStatsError(i))
  /\ UNCHANGED <<files, cases, s3, now, synced, ops, concurrency>>

\* await ddb.send(new UpdateCommand(caseParams)): SET metadata.* on the case
StatsUpdate(i) ==
  /\ inv[i].pc = "st_update"
  /\ cases[inv[i].recCase].exists
  /\ cases' = [cases EXCEPT ![inv[i].recCase] =
                 [@ EXCEPT !.totalScreenshots = inv[i].scr,
                           !.totalVideos = inv[i].vid,
                           !.totalFileSize = inv[i].tot,
                           !.lastActivity = inv[i].last,
                           !.updatedAt = inv[i].at]]
  /\ Return(i, AfterStats(i))
  /\ synced' = IF inv[i].fresh THEN synced \cup {inv[i].recCase}
                ELSE synced \ {inv[i].recCase}
  /\ UNCHANGED <<files, s3, now, ops, concurrency>>

\* the update throws (store failure, or no such case item: the document
\* path metadata.* is invalid); the parent logs it and returns success
StatsUpdateFail(i) ==
  /\ inv[i].pc = "st_update"
  /\ Return(i, AfterStatsError(i))
  /\ UNCHANGED <<files, cases, s3, now, synced, ops, concurrency>>

\* ------------------------------------------------------- confirmUpload
\* the request passed requireAuth and validateRequest
ConfirmStart(i, fileId, fileKey, actualFileSize) ==
  /\ Free(i)
  /\ Goto(i, [Idle EXCEPT !.op = "confirmUpload", !.pc = "cu_get",
                          !.fileId = fileId, !.fileKey = fileKey,
                          !.size = actualFileSize])
  /\ ops' = ops + 1
  /\ UNCHANGED <<files, cases, s3, now, synced, concurrency>>

\* mutant: the comparison of the expiry check is inverted
Expired_Inverted(rec, t) == rec.expiresAt # NoTime /\ rec.expiresAt > t

\* new Date(uploadRecord.expiresAt) < new Date()
\* (an item without expiresAt gives an Invalid Date, which compares false)
Expired(rec, t) == rec.expiresAt # NoTime /\ rec.expiresAt < t

\* mutant: the check of response.Item is lost
ConfirmGet_NoItemCheck(i) ==
  /\ inv[i].pc = "cu_get"
  /\ LET rec == files[inv[i].fileId]
     IN IF Expired(rec, now)
        THEN Return(i, createResponse(400, "Upload session expired"))
        ELSE Goto(i, [inv[i] EXCEPT !.pc = "cu_probe", !.recCase = rec.caseId,
                              !.recStatus = rec.status,
                              !.recType = rec.captureType,
                              !.recSize = rec.fileSize])
  /\ UNCHANGED <<files, cases, s3, now, synced, ops, concurrency>>

\* await ddb.send(new GetCommand(getParams)), then the expiry check
ConfirmGet(i) ==
  /\ inv[i].pc = "cu_get"
  /\ LET rec == files[inv[i].fileId]
     IN IF ~rec.exists
        THEN Return(i, createResponse(404, "Upload record not found"))
        ELSE IF Expired(rec, now)
        THEN Return(i, createResponse(400, "Upload session expired"))
        ELSE Goto(i, [inv[i] EXCEPT !.pc = "cu_probe", !.recCase = rec.caseId,
                              !.recStatus = rec.status,
                              !.recType = rec.captureType,
                              !.recSize = rec.fileSize])
  /\ UNCHANGED <<files, cases, s3, now, synced, ops, concurrency>>

ConfirmGetFail(i) ==
  /\ inv[i].pc = "cu_get"
  /\ Return(i, handleError)
  /\ UNCHANGED <<files, cases, s3, now, synced, ops, concurrency>>

\* the key confirmUpload probes in S3: the fileKey of the request
ProbeKey(i) == inv[i].fileKey

\* mutant: the result of the probe is ignored
ConfirmProbe_Unchecked(i) ==
  /\ inv[i].pc = "cu_probe"
  /\ Goto(i, [inv[i] EXCEPT !.pc = "cu_update", !.at = now])
  /\ UNCHANGED <<files, cases, s3, now, synced, ops, concurrency>>

\* await s3Client.send(new GetObjectCommand(...)), then now = new Date()
ConfirmProbe(i) ==
  /\ inv[i].pc = "cu_probe"
  /\ IF ProbeKey(i) \in s3
     THEN Goto(i, [inv[i] EXCEPT !.pc = "cu_update", !.at = now])
     ELSE Return(i, createResponse(400, "File not found in S3. Upload may have failed."))
  /\ UNCHANGED <<files, cases, s3, now, synced, ops, concurrency>>

\* GetObject throws for another reason: same catch block
ConfirmProbeFail(i) ==
  /\ inv[i].pc = "cu_probe"
  /\ Return(i, createResponse(400, "File not found in S3. Upload may have failed."))
  /\ UNCHANGED <<files, cases, s3, now, synced, ops, concurrency>>

\* variant: the update carries the condition #status = pending
ConfirmUpdate_Conditional(i) ==
  /\ inv[i].pc = "cu_update"
  /\ IF files[inv[i].fileId].exists /\ files[inv[i].fileId].status = "pending"
     THEN /\ files' = [files EXCEPT ![inv[i].fileId] =
                         ConfirmWrite(@, inv[i].at, inv[i].size)]
          /\ inv' = [Outdated(inv) EXCEPT ![i] =
                        [inv[i] EXCEPT !.pc = "st_query", !.at = NoTime]]
          /\ synced' = {}
          /\ UNCHANGED response
     ELSE /\ Return(i, handleErrorGeneric)
          /\ UNCHANGED <<files, synced>>
  /\ UNCHANGED <<cases, s3, now, ops, concurrency>>

\* await ddb.send(new UpdateCommand(updateParams)), then updateCaseFileStats
ConfirmUpdate(i) ==
  /\ inv[i].pc = "cu_update"
  /\ files' = [files EXCEPT ![inv[i].fileId] =
                 ConfirmWrite(@, inv[i].at, inv[i].size)]
  /\ inv' = [Outdated(inv) EXCEPT ![i] =
                [inv[i] EXCEPT !.pc = "st_query", !.at = NoTime]]
  /\ synced' = {}
  /\ UNCHANGED <<cases, s3, now, response, ops, concurrency>>

\* variant: the failed write is logged and the handler goes on
ConfirmUpdateFail_GoesOn(i) ==
  /\ inv[i].pc = "cu_update"
  /\ Goto(i, [inv[i] EXCEPT !.pc = "st_query", !.at = NoTime])
  /\ UNCHANGED <<files, cases, s3, now, synced, ops, concurrency>>

\* the UpdateCommand throws: the outer catch answers with handleError
ConfirmUpdateFail(i) ==
  /\ inv[i].pc = "cu_update"
  /\ Return(i, handleError)
  /\ UNCHANGED <<files, cases, s3, now, synced, ops, concurrency>>

\* ---------------------------------------------------------- deleteFile
\* the request passed requireAuth and validateRequest
DeleteStart(i, fileKey) ==
  /\ Free(i)
  /\ Goto(i, [Idle EXCEPT !.op = "deleteFile", !.pc = "df_query",
                          !.fileKey = fileKey])
  /\ ops' = ops + 1
  /\ UNCHANGED <<files, cases, s3, now, synced, concurrency>>

\* await ddb.send(new QueryCommand(fileParams)) on FileKeyIndex;
\* fileRecord = fileResponse.Items[0]
DeleteQuery(i) ==
  /\ inv[i].pc = "df_query"
  /\ LET Items == FileKeyIndex(files, inv[i].fileKey)
     IN IF Items = {}
        THEN Return(i, createResponse(404, "File not found"))
        ELSE \E f \in Items :
               Goto(i, [inv[i] EXCEPT !.pc = "df_s3", !.recId = f,
                                      !.recCase = files[f].caseId,
                                      !.recStatus = files[f].status,
                                      !.recType = files[f].captureType,
                                      !.recSize = files[f].fileSize])
  /\ UNCHANGED <<files, cases, s3, now, synced, ops, concurrency>>

DeleteQueryFail(i) ==
  /\ inv[i].pc = "df_query"
  /\ Return(i, handleError)
  /\ UNCHANGED <<files, cases, s3, now, synced, ops, concurrency>>

\* await s3Client.send(new DeleteObjectCommand(...)) (absent key: no error)
DeleteS3(i) ==
  /\ inv[i].pc = "df_s3"
  /\ s3' = s3 \ {inv[i].fileKey}
  /\ Goto(i, [inv[i] EXCEPT !.pc = "df_del"])
  /\ UNCHANGED <<files, cases, now, synced, ops, concurrency>>

\* the S3 delete throws: logged, the database cleanup goes on
DeleteS3Fail(i) ==
  /\ inv[i].pc = "df_s3"
  /\ Goto(i, [inv[i] EXCEPT !.pc = "df_del", !.s3Failed = TRUE])
  /\ UNCHANGED <<files, cases, s3, now, synced, ops, concurrency>>

\* mutant: the DeleteCommand is not sent
DeleteItem_NoDelete(i) ==
  /\ inv[i].pc = "df_del"
  /\ inv[i].recCase # "none"
  /\ Goto(i, [inv[i] EXCEPT !.pc = "st_query", !.s3Failed = FALSE])
  /\ UNCHANGED <<files, cases, s3, now, synced, ops, concurrency>>

\* await ddb.send(new DeleteCommand(deleteParams)), then
\* if (fileRecord.caseId) updateCaseFileStats(fileRecord.caseId)
DeleteItem(i) ==
  /\ inv[i].pc = "df_del"
  /\ files' = [files EXCEPT ![inv[i].recId] = NoFile]
  /\ synced' = {}
  /\ IF inv[i].recCase # "none"
     THEN /\ inv' = [Outdated(inv) EXCEPT ![i] =
                      [inv[i] EXCEPT !.pc = "st_query", !.s3Failed = FALSE]]
          /\ UNCHANGED response
     ELSE /\ inv' = [Outdated(inv) EXCEPT ![i] = Idle]
          /\ response' = [Ok200 EXCEPT !.op = inv[i].op]
  /\ UNCHANGED <<cases, s3, now, ops, concurrency>>

DeleteItemFail(i) ==
  /\ inv[i].pc = "df_del"
  /\ Return(i, handleError)
  /\ UNCHANGED <<files, cases, s3, now, synced, ops, concurrency>>

\* ------------------------------------------------ cleanupExpiredUploads
\* now = new Date().toISOString() is taken before the scan is sent
CleanupStart(i) ==
  /\ Free(i)
  /\ Goto(i, [Idle EXCEPT !.op = "cleanupExpiredUploads", !.pc = "cl_scan",
                          !.at = now])
  /\ ops' = ops + 1
  /\ UNCHANGED <<files, cases, s3, now, synced, concurrency>>

\* variant: the scan also takes the records that expire at :now
ExpiredUploads_Inclusive(fs, t) ==
  {f \in FileIds : fs[f].exists /\ fs[f].status = "pending"
                   /\ fs[f].expiresAt # NoTime /\ fs[f].expiresAt <= t}

\* FilterExpression '#status = :status AND expiresAt < :now'
ExpiredUploads(fs, t) ==
  {f \in FileIds : fs[f].exists /\ fs[f].status = "pending"
                   /\ fs[f].expiresAt # NoTime /\ fs[f].expiresAt < t}

\* the for loop takes the next upload, or the function returns cleaned
CleanupLoop(i, l) ==
  IF l.todo = {}
  THEN Return(i, Cleaned(l.cleaned))
  ELSE \E f \in l.todo :
         Goto(i, [l EXCEPT !.pc = "cl_s3", !.todo = l.todo \ {f}, !.cur = f,
                           !.curKey = files[f].fileKey])

\* await ddb.send(new ScanCommand(params))
CleanupScan(i) ==
  /\ inv[i].pc = "cl_scan"
  /\ LET expiredUploads == ExpiredUploads(files, inv[i].at)
     IN CleanupLoop(i, [inv[i] EXCEPT !.todo = expiredUploads,
                                      !.found = Cardinality(expiredUploads)])
  /\ UNCHANGED <<files, cases, s3, now, synced, ops, concurrency>>

\* the scan throws: the error is rethrown
CleanupScanFail(i) ==
  /\ inv[i].pc = "cl_scan"
  /\ Return(i, Thrown)
  /\ UNCHANGED <<files, cases, s3, now, synced, ops, concurrency>>

\* await s3Client.send(new DeleteObjectCommand(...)) with upload.fileKey
CleanupS3(i) ==
  /\ inv[i].pc = "cl_s3"
  /\ s3' = s3 \ {inv[i].curKey}
  /\ Goto(i, [inv[i] EXCEPT !.pc = "cl_del"])
  /\ UNCHANGED <<files, cases, now, synced, ops, concurrency>>

\* mutant: a failing S3 delete skips the delete of the record
CleanupS3Fail_SkipsRecord(i) ==
  /\ inv[i].pc = "cl_s3"
  /\ CleanupLoop(i, [inv[i] EXCEPT !.cleaned = @ + 1, !.cur = "none",
                                   !.curKey = "none"])
  /\ UNCHANGED <<files, cases, s3, now, synced, ops, concurrency>>

\* the S3 delete throws: the inner catch ignores it
CleanupS3Fail(i) ==
  /\ inv[i].pc = "cl_s3"
  /\ Goto(i, [inv[i] EXCEPT !.pc = "cl_del"])
  /\ UNCHANGED <<files, cases, s3, now, synced, ops, concurrency>>

\* variant: the reaper rewrites the totals of the case after its delete
CleanupItem_WritesCase(i) ==
  /\ inv[i].pc = "cl_del"
  /\ files' = [files EXCEPT ![inv[i].cur] = NoFile]
  /\ cases' = [c \in DOMAIN cases |->
                IF c = files[inv[i].cur].caseId
                THEN StatsWrite(cases[c], files', CompletedFiles(files', c), now)
                ELSE cases[c]]
  /\ synced' = {}
  /\ LET l == [inv[i] EXCEPT !.cleaned = @ + 1, !.cur = "none",
                             !.curKey = "none"]
     IN IF l.todo = {}
        THEN /\ inv' = [Outdated(inv) EXCEPT ![i] = Idle]
             /\ response' = [Cleaned(l.cleaned) EXCEPT !.op = inv[i].op]
        ELSE /\ \E f \in l.todo :
                  inv' = [Outdated(inv) EXCEPT ![i] =
                    [l EXCEPT !.pc = "cl_s3", !.todo = l.todo \ {f}, !.cur = f,
                              !.curKey = files[f].fileKey]]
             /\ UNCHANGED response
  /\ UNCHANGED <<s3, now, ops, concurrency>>

\* await ddb.send(new DeleteCommand(...)) with upload.id; cleaned++
CleanupItem(i) ==
  /\ inv[i].pc = "cl_del"
  /\ files' = [files EXCEPT ![inv[i].cur] = NoFile]
  /\ synced' = {}
  /\ LET l == [inv[i] EXCEPT !.cleaned = @ + 1, !.cur = "none",
                             !.curKey = "none"]
     IN IF l.todo = {}
        THEN /\ inv' = [Outdated(inv) EXCEPT ![i] = Idle]
             /\ response' = [Cleaned(l.cleaned) EXCEPT !.op = inv[i].op]
        ELSE /\ \E f \in l.todo :
                  inv' = [Outdated(inv) EXCEPT ![i] =
                    [l EXCEPT !.pc = "cl_s3", !.todo = l.todo \ {f}, !.cur = f,
                              !.curKey = files[f].fileKey]]
             /\ UNCHANGED response
  /\ UNCHANGED <<cases, s3, now, ops, concurrency>>

\* variant: a failing delete of the record ends the run
CleanupItemFail_Stops(i) ==
  /\ inv[i].pc = "cl_del"
  /\ Return(i, Cleaned(inv[i].cleaned))
  /\ UNCHANGED <<files, cases, s3, now, synced, ops, concurrency>>

\* the delete throws: logged, the loop goes on
CleanupItemFail(i) ==
  /\ inv[i].pc = "cl_del"
  /\ CleanupLoop(i, [inv[i] EXCEPT !.cur = "none", !.curKey = "none"])
  /\ UNCHANGED <<files, cases, s3, now, synced, ops, concurrency>>

\* ------------------------------------------------------ getPresignedUrl
FileTypes == {"image/png", "video/mp4", "application/pdf"}
DeclaredSizes == {0, maxFileSize, maxFileSize + 1}
RequestCaseIds == CaseIds \cup {"c0"}

\* mutant: one list of allowed types for both capture types
allowedTypes_OneList(captureType) ==
  {"image/png", "image/jpeg", "image/webp", "image/gif",
   "video/webm", "video/mp4", "video/quicktime"}

\* allowedTypes[captureType]
allowedTypes(captureType) ==
  IF captureType = "screenshot"
  THEN {"image/png", "image/jpeg", "image/webp", "image/gif"}
  ELSE {"video/webm", "video/mp4", "video/quicktime"}

\* the S3 commands the upload handler imports from @aws-sdk/client-s3
S3Imports == {"S3Client", "GetObjectCommand", "DeleteObjectCommand"}

\* mutant: the answer of checkCaseExists is not looked at
PresignChecks_NoCaseCheck(captureType, fileType, fileSize, caseExists) ==
  IF fileType \notin allowedTypes(captureType)
  THEN createResponse(400, "Invalid file type")
  ELSE IF fileSize # 0 /\ fileSize > maxFileSize
  THEN createResponse(400, "File size exceeds maximum limit")
  ELSE handleErrorGeneric

\* what follows checkCaseExists up to the first use of PutObjectCommand
PresignChecks(captureType, fileType, fileSize, caseExists) ==
  IF ~caseExists THEN createResponse(404, "Case not found")
  ELSE IF fileType \notin allowedTypes(captureType)
  THEN createResponse(400, "Invalid file type")
  ELSE IF fileSize # 0 /\ fileSize > maxFileSize
  THEN createResponse(400, "File size exceeds maximum limit")
  ELSE IF "PutObjectCommand" \notin S3Imports
  THEN handleErrorGeneric    \* ReferenceError: PutObjectCommand is not defined
  ELSE Ok200

\* the handler answers request r with one step of an idle invocation
Answer(i, op, r) ==
  /\ Free(i)
  /\ response' = [r EXCEPT !.op = op]
  /\ ops' = ops + 1
  /\ UNCHANGED <<files, cases, s3, now, inv, synced, concurrency>>

\* getPresignedUrl has one await before it returns: the request that
\* passed requireAuth and validateRequest is answered when
\* checkCaseExists(caseId) reads the Cases table
PresignCase(i, caseId, captureType, fileType, fileSize) ==
  Answer(i, "getPresignedUrl",
         [PresignChecks(captureType, fileType, fileSize,
                        caseId \in CaseIds /\ cases[caseId].exists)
            EXCEPT !.request = <<caseId, captureType, fileType, fileSize>>])

\* the GetCommand throws: checkCaseExists answers false
PresignCaseFail(i, caseId, captureType, fileType, fileSize) ==
  Answer(i, "getPresignedUrl",
         [PresignChecks(captureType, fileType, fileSize, FALSE)
            EXCEPT !.request = <<caseId, captureType, fileType, fileSize>>])

\* -------------------------------------------------------- getCaseFiles
\* captureType of the query string ("none": not given), page and limit
ListFilters == CaptureTypes \cup {"none"}
Pages == {1, 2}
Limits == {1, 50}

\* the request passed requireAuth; sortBy is left at 'uploadedAt'
FilesStart(i, caseId, captureType, page, limit, asc) ==
  /\ Free(i)
  /\ Goto(i, [Idle EXCEPT !.op = "getCaseFiles", !.pc = "gf_case",
                          !.recCase = caseId, !.recType = captureType,
                          !.page = page, !.limit = limit, !.asc = asc])
  /\ ops' = ops + 1
  /\ UNCHANGED <<files, cases, s3, now, synced, concurrency>>

\* the caseId and captureType the response is matched with
FilesRequest(l) == <<l.recCase, l.recType>>

\* await checkCaseExists(caseId)
FilesCase(i) ==
  /\ inv[i].pc = "gf_case"
  /\ IF inv[i].recCase \in CaseIds /\ cases[inv[i].recCase].exists
     THEN Goto(i, [inv[i] EXCEPT !.pc = "gf_query"])
     ELSE Return(i, [createResponse(404, "Case not found")
                       EXCEPT !.request = FilesRequest(inv[i])])
  /\ UNCHANGED <<files, cases, s3, now, synced, ops, concurrency>>

\* the GetCommand throws: checkCaseExists answers false
FilesCaseFail(i) ==
  /\ inv[i].pc = "gf_case"
  /\ Return(i, [createResponse(404, "Case not found")
                  EXCEPT !.request = FilesRequest(inv[i])])
  /\ UNCHANGED <<files, cases, s3, now, synced, ops, concurrency>>

\* variant: the captureType of the query string is not put in the filter
MatchingFiles_NoTypeFilter(fs, c, t) ==
  {f \in CaseIdIndex(fs, c) : fs[f].status = "completed"}

\* CaseIdIndex with FilterExpression '#status = :status', and
\* ' AND captureType = :captureType' when captureType is given
MatchingFiles(fs, c, t) ==
  {f \in CaseIdIndex(fs, c) :
     fs[f].status = "completed" /\ (t # "none" => fs[f].captureType = t)}

\* the Items in the order of the index's sort key uploadedAt
\* (ScanIndexForward: sortOrder === 'asc'); equal keys come in any order
QueryOrders(fs, M, asc) ==
  {q \in [1..Cardinality(M) -> M] :
     \A a, b \in 1..Cardinality(M) :
       a < b => /\ q[a] # q[b]
                /\ IF asc THEN fs[q[a]].uploadedAt <= fs[q[b]].uploadedAt
                   ELSE fs[q[a]].uploadedAt >= fs[q[b]].uploadedAt}

\* files.slice(startIndex, endIndex)
Slice(q, page, limit) ==
  LET startIndex == (page - 1) * limit
      endIndex == startIndex + limit
      last == IF endIndex < Len(q) THEN endIndex ELSE Len(q)
  IN IF startIndex >= Len(q) THEN <<>>
     ELSE [k \in 1..(last - startIndex) |-> q[startIndex + k]]

\* the for loop signs the next file, or the handler returns the page
FilesLoop(i, l) ==
  IF Cardinality(l.todo) = 0
  THEN Return(i, [Ok200 EXCEPT !.request = FilesRequest(l),
                               !.listed = l.paged, !.nullUrls = l.nullUrls,
                               !.summary = <<l.found, l.scr, l.vid, l.tot>>])
  ELSE LET k == Len(l.paged) - Cardinality(l.todo) + 1
       IN Goto(i, [l EXCEPT !.pc = "gf_sign", !.cur = l.paged[k],
                            !.todo = l.todo \ {l.paged[k]}])

\* await ddb.send(new QueryCommand(params)), pagination, and the summary
\* (computed from the Items after the loop, which leaves them as read)
FilesQuery(i) ==
  /\ inv[i].pc = "gf_query"
  /\ LET M == MatchingFiles(files, inv[i].recCase, inv[i].recType)
     IN \E q \in QueryOrders(files, M, inv[i].asc) :
          LET paginatedFiles == Slice(q, inv[i].page, inv[i].limit)
          IN FilesLoop(i, [inv[i] EXCEPT
               !.paged = paginatedFiles,
               !.todo = {paginatedFiles[k] : k \in 1..Len(paginatedFiles)},
               !.found = Cardinality(M),
               !.scr = CountType(files, M, "screenshot"),
               !.vid = CountType(files, M, "video"),
               !.tot = SumSize(files, M)])
  /\ UNCHANGED <<files, cases, s3, now, synced, ops, concurrency>>

\* the query throws: the outer catch answers with handleError
FilesQueryFail(i) ==
  /\ inv[i].pc = "gf_query"
  /\ Return(i, [handleError EXCEPT !.request = FilesRequest(inv[i])])
  /\ UNCHANGED <<files, cases, s3, now, synced, ops, concurrency>>

\* await getSignedUrl(s3Client, new GetObjectCommand(...)): downloadUrl set
FilesSign(i) ==
  /\ inv[i].pc = "gf_sign"
  /\ FilesLoop(i, [inv[i] EXCEPT !.cur = "none"])
  /\ UNCHANGED <<files, cases, s3, now, synced, ops, concurrency>>

\* variant: a signing error leaves the loop and the handler
FilesSignFail_Aborts(i) ==
  /\ inv[i].pc = "gf_sign"
  /\ Return(i, [handleErrorGeneric EXCEPT !.request = FilesRequest(inv[i])])
  /\ UNCHANGED <<files, cases, s3, now, synced, ops, concurrency>>

\* getSignedUrl throws: the inner catch sets file.downloadUrl = null
FilesSignFail(i) ==
  /\ inv[i].pc = "gf_sign"
  /\ FilesLoop(i, [inv[i] EXCEPT !.cur = "none",
                                 !.nullUrls = @ \cup {inv[i].cur}])
  /\ UNCHANGED <<files, cases, s3, now, synced, ops, concurrency>>

\* ------------------------------------------------------ getUploadStats
\* caseId of the query string ("none": not given); days is left at 30
StatsCaseIds == CaseIds \cup {"none"}
days == 30 * 86400

\* Scan with FilterExpression '#status = :status', then the date filter
\* new Date(f.uploadedAt) >= cutoffDate
ScannedCompleted(fs, t) ==
  {f \in FileIds : fs[f].exists /\ fs[f].status = "completed"
                   /\ fs[f].uploadedAt >= t - days}

\* getUploadStats has one await.  Without caseId it scans the table.  With
\* caseId it sends a Query on CaseIdIndex from which FilterExpression was
\* deleted while '#status' and ':status' stay in ExpressionAttributeNames
\* and ExpressionAttributeValues: DynamoDB rejects unused names and values
\* with a ValidationException, which handleError answers with 400
UploadStats(i, caseId) ==
  Answer(i, "getUploadStats",
         IF caseId = "none"
         THEN LET S == ScannedCompleted(files, now)
              IN [Ok200 EXCEPT !.request = <<caseId>>,
                               !.summary = <<Cardinality(S),
                                             CountType(files, S, "screenshot"),
                                             CountType(files, S, "video"),
                                             SumSize(files, S)>>]
         ELSE [createResponse(400, "Invalid request parameters")
                 EXCEPT !.request = <<caseId>>])

\* the Scan or Query throws a transient error
UploadStatsFail(i, caseId) ==
  Answer(i, "getUploadStats", [handleError EXCEPT !.request = <<caseId>>])

\* --------------------------------------------------------- requireAuth
\* the handlers of upload.js and case.js that module.exports wraps
RequireAuthExports ==
  {"getPresignedUrl", "confirmUpload", "deleteFile", "getCaseFiles",
   "getDownloadUrl", "getUploadStats",
   "getCases", "createCase", "getCase", "updateCase", "deleteCase",
   "getCaseStats", "getAvailableTags", "bulkUpdateCases",
   "updateCaseMetadata", "exportCases"}

\* tokens a client may present: the empty string, one signed with another
\* secret, one signed with JWT_SECRET whose exp is TickLen, and one signed
\* with JWT_SECRET whose exp lies beyond the clock's range
Tokens == {"", "forged", "expiring", "valid"}
Signed(token) == token \in {"expiring", "valid"}
ExpOf(token) == IF token = "expiring" THEN TickLen ELSE MaxTime + TickLen

\* the Authorization header as authHeader.split(' ') sees it; <<>> is a
\* request without the header
AuthHeaders ==
  {<<>>, <<"Bearer">>, <<"Bearer", "valid", "x">>}
  \cup {<<s, t>> : s \in {"Bearer", "Basic"}, t \in Tokens}

null == "null"

\* extractToken(authHeader)
extractToken(authHeader) ==
  IF authHeader = <<>> THEN null
  ELSE IF Len(authHeader) # 2 \/ authHeader[1] # "Bearer" THEN null
  ELSE authHeader[2]

\* variant: the exp claim of the token is not checked
verifyToken_IgnoresExpiry(token, t) ==
  IF Signed(token) THEN "u1" ELSE null

\* verifyToken(token): jwt.verify checks the signature and the exp claim
\* (expired when the clock has reached exp); the userId of the payload
verifyToken(token, t) ==
  IF Signed(token) /\ t < ExpOf(token) THEN "u1" ELSE null

\* the function requireAuth(handler) returns, up to the call of handler
RequireAuth(i, op, authHeader) ==
  /\ Free(i)
  /\ ops' = ops + 1
  /\ LET token == extractToken(authHeader)
         decoded == verifyToken(token, now)
     IN IF token = null \/ token = ""
        THEN /\ response' = [createResponse(401, "Authentication token required")
                               EXCEPT !.op = op, !.request = authHeader]
             /\ UNCHANGED inv
        ELSE IF decoded = null
        THEN /\ response' = [createResponse(401, "Invalid or expired token")
                               EXCEPT !.op = op, !.request = authHeader]
             /\ UNCHANGED inv
        ELSE Goto(i, [Idle EXCEPT !.op = op, !.pc = "handler",
                                  !.header = authHeader, !.user = decoded])
  /\ UNCHANGED <<files, cases, s3, now, synced, concurrency>>

\* return await handler(event, context): the wrapped handler answers
HandlerReturns(i) ==
  /\ inv[i].pc = "handler"
  /\ Return(i, [Ok200 EXCEPT !.request = inv[i].header])
  /\ UNCHANGED <<files, cases, s3, now, synced, ops, concurrency>>

\* the wrapped handler throws: the catch block of the middleware
HandlerThrows(i) ==
  /\ inv[i].pc = "handler"
  /\ Return(i, [createResponse(500, "Authentication failed")
                  EXCEPT !.request = inv[i].header])
  /\ UNCHANGED <<files, cases, s3, now, synced, ops, concurrency>>

\* ------------------------------------------------ the case handlers
\* (src/src/handlers/case.js)

\* the metadata objects a client sends to updateCaseMetadata
ClientMetadata ==
  {[totalScreenshots |-> n, totalVideos |-> n, totalFileSize |-> n,
    lastActivity |-> 0] : n \in {0, 7}}

\* a handler with one await writes the item of case c and answers r
AnswerCase(i, op, c, item, r) ==
  /\ Free(i)
  /\ cases' = [cases EXCEPT ![c] = item]
  /\ response' = [r EXCEPT !.op = op]
  /\ ops' = ops + 1
  /\ UNCHANGED <<files, s3, now, inv, synced, concurrency>>

\* the ids generateCaseId may return: 'Case-' + the date + four random
\* digits, an id in use or a new one
GeneratedCaseIds == CaseIds \cup NewCaseIds

\* variant: the PutCommand carries no ConditionExpression
CreateCase_Unconditional(i, caseId) ==
  AnswerCase(i, "createCase", caseId, newCase(now),
             [createResponse(201, "none") EXCEPT !.request = <<caseId>>])

\* createCase: the request passed requireAuth and validateRequest; PutCommand
\* of newCase with ConditionExpression attribute_not_exists(id);
\* ConditionalCheckFailedException is answered 409
CreateCase(i, caseId) ==
  IF cases[caseId].exists
  THEN Answer(i, "createCase",
              [createResponse(409, "Case ID already exists")
                 EXCEPT !.request = <<caseId>>])
  ELSE AnswerCase(i, "createCase", caseId, newCase(now),
                  [createResponse(201, "none") EXCEPT !.request = <<caseId>>])

\* the PutCommand throws another error
CreateCaseFail(i, caseId) ==
  Answer(i, "createCase", [handleError EXCEPT !.request = <<caseId>>])

\* getCase: the request passed requireAuth
GetCaseStart(i, caseId) ==
  /\ Free(i)
  /\ Goto(i, [Idle EXCEPT !.op = "getCase", !.pc = "gc_get",
                          !.recCase = caseId])
  /\ ops' = ops + 1
  /\ UNCHANGED <<files, cases, s3, now, synced, concurrency>>

\* await ddb.send(new GetCommand(params)): case_ = response.Item, of which
\* the stored metadata and updatedAt are kept
GetCaseGet(i) ==
  /\ inv[i].pc = "gc_get"
  /\ LET c == inv[i].recCase
     IN IF c \in DOMAIN cases /\ cases[c].exists
        THEN Goto(i, [inv[i] EXCEPT !.pc = "gc_query",
                              !.scr = cases[c].totalScreenshots,
                              !.vid = cases[c].totalVideos,
                              !.tot = cases[c].totalFileSize,
                              !.last = cases[c].lastActivity,
                              !.at = cases[c].updatedAt])
        ELSE Return(i, [createResponse(404, "Case not found")
                          EXCEPT !.request = <<c>>])
  /\ UNCHANGED <<files, cases, s3, now, synced, ops, concurrency>>

\* the GetCommand throws
GetCaseGetFail(i) ==
  /\ inv[i].pc = "gc_get"
  /\ Return(i, [handleError EXCEPT !.request = <<inv[i].recCase>>])
  /\ UNCHANGED <<files, cases, s3, now, synced, ops, concurrency>>

\* files[0].uploadedAt of a Query on CaseIdIndex in its default order
\* (ScanIndexForward true: ascending uploadedAt)
FirstUploadedAt(fs, S) ==
  CHOOSE t \in {fs[f].uploadedAt : f \in S} : \A f \in S : t <= fs[f].uploadedAt

\* await ddb.send(new QueryCommand(fileParams)) on CaseIdIndex, without a
\* filter; case_.metadata is overwritten with the reduction of the Items
GetCaseQuery(i) ==
  /\ inv[i].pc = "gc_query"
  /\ LET S == CaseIdIndex(files, inv[i].recCase)
     IN Return(i, [Ok200 EXCEPT
          !.request = <<inv[i].recCase>>,
          !.summary = <<CountType(files, S, "screenshot"),
                        CountType(files, S, "video"),
                        SumSize(files, S),
                        IF S # {} THEN FirstUploadedAt(files, S)
                        ELSE inv[i].at>>])
  /\ UNCHANGED <<files, cases, s3, now, synced, ops, concurrency>>

\* the query throws: the inner catch logs it, the stored metadata is returned
GetCaseQueryFail(i) ==
  /\ inv[i].pc = "gc_query"
  /\ Return(i, [Ok200 EXCEPT
       !.request = <<inv[i].recCase>>,
       !.summary = <<inv[i].scr, inv[i].vid, inv[i].tot, inv[i].last>>])
  /\ UNCHANGED <<files, cases, s3, now, synced, ops, concurrency>>

\* deleteCase: the request passed requireAuth
DeleteCaseStart(i, caseId) ==
  /\ Free(i)
  /\ Goto(i, [Idle EXCEPT !.op = "deleteCase", !.pc = "dc_query",
                          !.recCase = caseId])
  /\ ops' = ops + 1
  /\ UNCHANGED <<files, cases, s3, now, synced, concurrency>>

\* await ddb.send(new QueryCommand(fileParams)) on CaseIdIndex, Limit 1
DeleteCaseQuery(i) ==
  /\ inv[i].pc = "dc_query"
  /\ IF CaseIdIndex(files, inv[i].recCase) # {}
     THEN Return(i, [createResponse(400, "Cannot delete case with associated files. Please delete files first.")
                       EXCEPT !.request = <<inv[i].recCase>>])
     ELSE Goto(i, [inv[i] EXCEPT !.pc = "dc_delete"])
  /\ UNCHANGED <<files, cases, s3, now, synced, ops, concurrency>>

\* the query throws
DeleteCaseQueryFail(i) ==
  /\ inv[i].pc = "dc_query"
  /\ Return(i, [handleError EXCEPT !.request = <<inv[i].recCase>>])
  /\ UNCHANGED <<files, cases, s3, now, synced, ops, concurrency>>

\* await ddb.send(new DeleteCommand(params)) with ConditionExpression
\* attribute_exists(id); ConditionalCheckFailedException is answered 404
DeleteCaseItem(i) ==
  /\ inv[i].pc = "dc_delete"
  /\ LET c == inv[i].recCase
     IN IF c \in DOMAIN cases /\ cases[c].exists
        THEN /\ cases' = [cases EXCEPT ![c] = NoCase]
             /\ Return(i, [Ok200 EXCEPT !.request = <<c>>])
        ELSE /\ UNCHANGED cases
             /\ Return(i, [createResponse(404, "Case not found")
                             EXCEPT !.request = <<c>>])
  /\ UNCHANGED <<files, s3, now, synced, ops, concurrency>>

\* the delete throws another error
DeleteCaseItemFail(i) ==
  /\ inv[i].pc = "dc_delete"
  /\ Return(i, [handleError EXCEPT !.request = <<inv[i].recCase>>])
  /\ UNCHANGED <<files, cases, s3, now, synced, ops, concurrency>>

\* updateCase: SET updatedAt = :updatedAt and the keys of updateCaseSchema
\* (title, description, status, priority, assignedTo, tags; validateRequest
\* strips every other key), ConditionExpression attribute_exists(id)
UpdateCase(i, caseId) ==
  IF caseId \in CaseIds /\ cases[caseId].exists
  THEN AnswerCase(i, "updateCase", caseId,
                  [cases[caseId] EXCEPT !.updatedAt = now], Ok200)
  ELSE Answer(i, "updateCase", createResponse(404, "Case not found"))

\* the UpdateCommand throws
UpdateCaseFail(i, caseId) == Answer(i, "updateCase", handleError)

\* updateCaseMetadata: SET metadata = :metadata, updatedAt = :updatedAt
\* with the metadata of the request body as it is (no validation)
UpdateCaseMetadata(i, caseId, metadata) ==
  IF caseId \in CaseIds /\ cases[caseId].exists
  THEN AnswerCase(i, "updateCaseMetadata", caseId,
                  [cases[caseId] EXCEPT
                     !.totalScreenshots = metadata.totalScreenshots,
                     !.totalVideos = metadata.totalVideos,
                     !.totalFileSize = metadata.totalFileSize,
                     !.lastActivity = metadata.lastActivity,
                     !.updatedAt = now], Ok200)
  ELSE Answer(i, "updateCaseMetadata", createResponse(404, "Case not found"))

UpdateCaseMetadataFail(i, caseId) ==
  Answer(i, "updateCaseMetadata", handleError)

\* bulkUpdateCases: now is taken once, then one UpdateCommand per caseId
BulkStart(i, caseIds) ==
  /\ Free(i)
  /\ caseIds # {}
  /\ Goto(i, [Idle EXCEPT !.op = "bulkUpdateCases", !.pc = "bu_update",
                          !.at = now, !.todo = caseIds])
  /\ ops' = ops + 1
  /\ UNCHANGED <<files, cases, s3, now, synced, concurrency>>

\* the loop takes the next caseId, or the handler answers 200
BulkLoop(i, l) ==
  IF l.todo = {} THEN Return(i, Cleaned(l.cleaned)) ELSE Goto(i, l)

\* await ddb.send(new UpdateCommand(params)); results.updated++
\* (a caseId without item fails the condition: results.failed++)
BulkUpdate(i) ==
  /\ inv[i].pc = "bu_update"
  /\ \E c \in inv[i].todo :
       IF c \in CaseIds /\ cases[c].exists
       THEN /\ cases' = [cases EXCEPT ![c] = [@ EXCEPT !.updatedAt = inv[i].at]]
            /\ BulkLoop(i, [inv[i] EXCEPT !.todo = @ \ {c}, !.cleaned = @ + 1])
       ELSE /\ UNCHANGED cases
            /\ BulkLoop(i, [inv[i] EXCEPT !.todo = @ \ {c}])
  /\ UNCHANGED <<files, s3, now, synced, ops, concurrency>>

\* the UpdateCommand throws: results.failed++, the loop goes on
BulkUpdateFail(i) ==
  /\ inv[i].pc = "bu_update"
  /\ \E c \in inv[i].todo : BulkLoop(i, [inv[i] EXCEPT !.todo = @ \ {c}])
  /\ UNCHANGED <<files, cases, s3, now, synced, ops, concurrency>>

\* ------------------------------------------------------------------ Next
ConfirmSteps(i) ==
  \/ \E f \in FileIds, k \in FileKeys, s \in Sizes : ConfirmStart(i, f, k, s)
  \/ ConfirmGet(i)
  \/ ConfirmGetFail(i)
  \/ ConfirmProbe(i)
  \/ ConfirmProbeFail(i)
  \/ ConfirmUpdate(i)
  \/ ConfirmUpdateFail(i)

StatsSteps(i) ==
  \/ StatsQuery(i)
  \/ StatsQueryFail(i)
  \/ StatsUpdate(i)
  \/ StatsUpdateFail(i)

FilesSteps(i) ==
  \/ \E c \in RequestCaseIds, t \in ListFilters, p \in Pages, l \in Limits,
        a \in BOOLEAN : FilesStart(i, c, t, p, l, a)
  \/ FilesCase(i)
  \/ FilesCaseFail(i)
  \/ FilesQuery(i)
  \/ FilesQueryFail(i)
  \/ FilesSign(i)
  \/ FilesSignFail(i)

AuthSteps(i) ==
  \/ \E op \in RequireAuthExports, h \in AuthHeaders : RequireAuth(i, op, h)
  \/ HandlerReturns(i)
  \/ HandlerThrows(i)

DeleteCaseSteps(i) ==
  \/ \E c \in RequestCaseIds : DeleteCaseStart(i, c)
  \/ DeleteCaseQuery(i)
  \/ DeleteCaseQueryFail(i)
  \/ DeleteCaseItem(i)
  \/ DeleteCaseItemFail(i)

GetCaseSteps(i) ==
  \/ \E c \in RequestCaseIds : GetCaseStart(i, c)
  \/ GetCaseGet(i)
  \/ GetCaseGetFail(i)
  \/ GetCaseQuery(i)
  \/ GetCaseQueryFail(i)

UploadStatsSteps(i) ==
  \E c \in StatsCaseIds : UploadStats(i, c) \/ UploadStatsFail(i, c)

DeleteSteps(i) ==
  \/ \E k \in FileKeys : DeleteStart(i, k)
  \/ DeleteQuery(i)
  \/ DeleteQueryFail(i)
  \/ DeleteS3(i)
  \/ DeleteS3Fail(i)
  \/ DeleteItem(i)
  \/ DeleteItemFail(i)

CleanupSteps(i) ==
  \/ CleanupStart(i)
  \/ CleanupScan(i)
  \/ CleanupScanFail(i)
  \/ CleanupS3(i)
  \/ CleanupS3Fail(i)
  \/ CleanupItem(i)
  \/ CleanupItemFail(i)

PresignSteps(i) ==
  \E c \in RequestCaseIds, t \in CaptureTypes, ft \in FileTypes,
     d \in DeclaredSizes :
       \/ PresignCase(i, c, t, ft, d)
       \/ PresignCaseFail(i, c, t, ft, d)

CaseSteps(i) ==
  \/ \E c \in GeneratedCaseIds : CreateCase(i, c) \/ CreateCaseFail(i, c)
  \/ \E c \in RequestCaseIds : UpdateCase(i, c) \/ UpdateCaseFail(i, c)
  \/ \E c \in RequestCaseIds, m \in ClientMetadata : UpdateCaseMetadata(i, c, m)
  \/ \E c \in RequestCaseIds : UpdateCaseMetadataFail(i, c)
  \/ \E S \in SUBSET RequestCaseIds : BulkStart(i, S)
  \/ BulkUpdate(i)
  \/ BulkUpdateFail(i)

Env ==
  \/ Tick
  \/ \E k \in FileKeys : ClientUpload(k)

\* the handlers that write the tables and the bucket
Next ==
  \/ Env
  \/ \E i \in Invs : ConfirmSteps(i)
  \/ \E i \in Invs : StatsSteps(i)
  \/ \E i \in Invs : DeleteSteps(i)
  \/ \E i \in Invs : CleanupSteps(i)

\* session creation and the reaper
NextPresign ==
  \/ Env
  \/ \E i \in Invs : PresignSteps(i)
  \/ \E i \in Invs : CleanupSteps(i)

\* the handlers that change the completed files, and updateCaseFileStats
\* called on its own
NextStats ==
  \/ Env
  \/ \E i \in Invs : ConfirmSteps(i)
  \/ \E i \in Invs : StatsSteps(i)
  \/ \E i \in Invs : DeleteSteps(i)
  \/ \E i \in Invs, c \in CaseIds : StatsStart(i, c)

\* confirmations and deletions whose recomputations succeed
NextRace ==
  \/ Env
  \/ \E i \in Invs : ConfirmSteps(i)
  \/ \E i \in Invs : DeleteSteps(i)
  \/ \E i \in Invs : StatsQuery(i) \/ StatsUpdate(i)

\* confirmations and reaper runs whose scan and record deletes succeed
NextReap ==
  \/ Env
  \/ \E i \in Invs : ConfirmSteps(i)
  \/ \E i \in Invs : StatsSteps(i)
  \/ \E i \in Invs : \/ CleanupStart(i)
                      \/ CleanupScan(i)
                      \/ CleanupS3(i)
                      \/ CleanupS3Fail(i)
                      \/ CleanupItem(i)

\* confirmations whose recomputations succeed, and reaper runs
NextReapRace ==
  \/ Env
  \/ \E i \in Invs : ConfirmSteps(i)
  \/ \E i \in Invs : StatsQuery(i) \/ StatsUpdate(i)
  \/ \E i \in Invs : CleanupSteps(i)

\* the handlers that write the Cases table
NextCase ==
  \/ Env
  \/ \E i \in Invs : CaseSteps(i)
  \/ \E i \in Invs : StatsSteps(i)
  \/ \E i \in Invs, c \in CaseIds : StatsStart(i, c)

\* confirmations served at once within one clock reading, no store call
\* fails
NextConfirmRace ==
  \/ \E k \in FileKeys : ClientUpload(k)
  \/ \E i \in Invs : \/ \E f \in FileIds, k \in FileKeys, s \in Sizes :
                           ConfirmStart(i, f, k, s)
                      \/ ConfirmGet(i)
                      \/ ConfirmProbe(i)
                      \/ ConfirmUpdate(i)
  \/ \E i \in Invs : StatsQuery(i) \/ StatsUpdate(i)

\* two confirmations served at once
SpecConfirmRace == InitRace /\ [][NextConfirmRace]_vars

\* confirmations and listings within one clock reading, one request at a
\* time; the store calls of the confirmations succeed
NextFiles ==
  \/ \E k \in FileKeys : ClientUpload(k)
  \/ \E i \in Invs : \/ \E f \in FileIds, k \in FileKeys, s \in Sizes :
                           ConfirmStart(i, f, k, s)
                      \/ ConfirmGet(i)
                      \/ ConfirmProbe(i)
                      \/ ConfirmUpdate(i)
  \/ \E i \in Invs : StatsQuery(i) \/ StatsUpdate(i)
  \/ \E i \in Invs : FilesSteps(i)

\* the listing of a case, one request at a time
SpecFiles == Init /\ [][NextFiles]_vars

\* the authentication middleware in front of the exported handlers
NextAuth ==
  \/ Tick
  \/ \E i \in Invs : AuthSteps(i)

\* requests to the exported handlers, one at a time
SpecAuth == Init /\ [][NextAuth]_vars

\* confirmations whose lookup and probe succeed and whose write may fail
NextConfirmWrite ==
  \/ Env
  \/ \E i \in Invs : \/ \E f \in FileIds, k \in FileKeys, s \in Sizes :
                           ConfirmStart(i, f, k, s)
                      \/ ConfirmGet(i)
                      \/ ConfirmProbe(i)
                      \/ ConfirmUpdate(i)
                      \/ ConfirmUpdateFail(i)
  \/ \E i \in Invs : StatsQuery(i) \/ StatsUpdate(i)

\* confirmations with a failing write, one request at a time
SpecConfirmWrite == Init /\ [][NextConfirmWrite]_vars

\* deleteCase, and the confirmations (their store calls up to the write
\* succeed) that put files into CaseIdIndex
NextDeleteCase ==
  \/ Env
  \/ \E i \in Invs : \/ \E f \in FileIds, k \in FileKeys, s \in Sizes :
                           ConfirmStart(i, f, k, s)
                      \/ ConfirmGet(i)
                      \/ ConfirmProbe(i)
                      \/ ConfirmUpdate(i)
  \/ \E i \in Invs : StatsSteps(i)
  \/ \E i \in Invs : DeleteCaseSteps(i)

\* deleteCase and confirmUpload, one request at a time
SpecDeleteCase == Init /\ [][NextDeleteCase]_vars

\* getCase, and the confirmations (their store calls up to the write
\* succeed) that complete the files it reads
NextGetCase ==
  \/ Env
  \/ \E i \in Invs : \/ \E f \in FileIds, k \in FileKeys, s \in Sizes :
                           ConfirmStart(i, f, k, s)
                      \/ ConfirmGet(i)
                      \/ ConfirmProbe(i)
                      \/ ConfirmUpdate(i)
  \/ \E i \in Invs : StatsSteps(i)
  \/ \E i \in Invs : GetCaseSteps(i)

\* getCase and confirmUpload, one request at a time
SpecGetCase == Init /\ [][NextGetCase]_vars

\* getUploadStats, and the confirmations (their store calls up to the
\* write succeed) that complete the files it counts
NextUploadStats ==
  \/ Env
  \/ \E i \in Invs : \/ \E f \in FileIds, k \in FileKeys, s \in Sizes :
                           ConfirmStart(i, f, k, s)
                      \/ ConfirmGet(i)
                      \/ ConfirmProbe(i)
                      \/ ConfirmUpdate(i)
  \/ \E i \in Invs : StatsSteps(i)
  \/ \E i \in Invs : UploadStatsSteps(i)

\* getUploadStats and confirmUpload, one request at a time
SpecUploadStats == Init /\ [][NextUploadStats]_vars

\* the handlers, one request at a time
Spec == Init /\ [][Next]_vars

\* session creation and the reaper, one request at a time
SpecPresign == Init /\ [][NextPresign]_vars

\* the recomputation, one request at a time
SpecStats == Init /\ [][NextStats]_vars

\* the reaper without store failures, one request at a time
SpecReap == Init /\ [][NextReap]_vars

\* a confirmation and a reaper run served at once
SpecReapRace == InitRace /\ [][NextReapRace]_vars

\* the case handlers and the recomputation, one request at a time
SpecCase == Init /\ [][NextCase]_vars

\* two requests served at once, every recomputation succeeds
SpecRace == InitRace /\ [][NextRace]_vars

\* ------------------------------------------------------------ properties
NotInS3 == "File not found in S3. Upload may have failed."

\* the File records of case c that are completed, read off the table
Completed(c) ==
  {f \in FileIds : files[f].exists /\ files[f].caseId = c
                   /\ files[f].status = "completed"}

RECURSIVE SizeOf(_)
SizeOf(S) ==
  IF S = {} THEN 0
  ELSE LET f == CHOOSE x \in S : TRUE IN files[f].fileSize + SizeOf(S \ {f})

OfType(c, t) == {f \in Completed(c) : files[f].captureType = t}

\* the three totals of the case item are those of the completed File
\* records of c
TotalsOf(case, c) ==
  /\ case.totalScreenshots = Cardinality(OfType(c, "screenshot"))
  /\ case.totalVideos = Cardinality(OfType(c, "video"))
  /\ case.totalFileSize = SizeOf(Completed(c))

TotalsMatch(c) == TotalsOf(cases[c], c)

\* no handler is running
Quiescent == \A i \in Invs : inv[i].pc = "idle"

\* C1: in every reachable state every completed File record has an object
\* in the bucket at its own fileKey.
C1_CompletedHasObject ==
  \A f \in FileIds :
    files[f].exists /\ files[f].status = "completed" => files[f].fileKey \in s3

\* C2: a record becomes completed only if an object exists at the key
\* stored in that record (whatever fileKey the request names).
C2_CompletesOnlyOwnObject ==
  [][\A f \in FileIds :
       files[f].exists /\ files[f].status = "pending"
       /\ files'[f].status = "completed" => files[f].fileKey \in s3]_vars

\* C3: a status only changes from pending to completed, and a completed
\* record keeps its fileSize and uploadedAt as long as it exists (every
\* later confirmUpload is rejected).
C3_CompletedIsFinal ==
  [][\A f \in FileIds :
       /\ files[f].exists /\ files'[f].exists
          /\ files'[f].status # files[f].status
          => files[f].status = "pending" /\ files'[f].status = "completed"
       /\ files[f].exists /\ files[f].status = "completed" /\ files'[f].exists
          => /\ files'[f].fileSize = files[f].fileSize
             /\ files'[f].uploadedAt = files[f].uploadedAt
       /\ \A i \in Invs :
            inv[i].op = "confirmUpload" /\ inv[i].fileId = f
            /\ inv[i].pc = "cu_get" /\ inv'[i].pc # "cu_get"
            /\ files[f].exists /\ files[f].status = "completed"
            => inv'[i].pc = "idle" /\ response'.status >= 400]_vars

\* C4: confirmUpload on an existing, unexpired, pending record with no
\* object at the given fileKey answers with the upload-not-found error,
\* leaves the Files and Cases tables as they are and starts no
\* recomputation.
C4_AbsentObjectRejected ==
  [][\A i \in Invs :
       inv[i].pc = "cu_probe" /\ inv'[i] # inv[i]
       /\ files[inv[i].fileId].status = "pending"
       /\ inv[i].fileKey \notin s3
       => /\ response'.op = "confirmUpload"
          /\ response'.status = 400 /\ response'.error = NotInS3
          /\ inv'[i].pc = "idle"
          /\ files' = files /\ cases' = cases]_vars

\* C4 witness: the confirmation of f1 was rejected for the absent object,
\* then the object was uploaded and a later confirmation completed f1
C4_Witness ==
  /\ response.op = "confirmUpload" /\ response.fileId = "f1"
  /\ response.error = NotInS3
  /\ files["f1"].status = "completed" /\ files["f1"].fileKey \in s3

\* C5: confirmUpload on a record whose expiresAt is earlier than the
\* current time is rejected with the session-expired error whether or not
\* the object is in the bucket, and no step of it writes or deletes a File
\* record.
C5_ExpiredRejected ==
  [][\A i \in Invs :
       LET rec == files[inv[i].fileId]
       IN inv[i].pc = "cu_get" /\ inv'[i] # inv[i]
          /\ rec.exists /\ rec.expiresAt # NoTime /\ rec.expiresAt < now
          => /\ inv'[i].pc = "idle"
             /\ files' = files /\ s3' = s3 /\ cases' = cases
             /\ ConfirmGet(i) => /\ response'.status = 400
                                 /\ response'.error = "Upload session expired"]_vars

\* C5 witness: a session whose object is in the bucket was refused as expired
C5_Witness ==
  /\ response.op = "confirmUpload" /\ response.fileId = "f1"
  /\ response.error = "Upload session expired"
  /\ files["f1"].status = "pending" /\ "k1" \in s3

\* C6: confirmUpload with a fileId that has no File record answers 404
\* and leaves the Files and Cases tables as they are.
C6_MissingRecordNotFound ==
  [][\A i \in Invs :
       ConfirmGet(i) /\ ~files[inv[i].fileId].exists
       => /\ response'.status = 404
          /\ response'.error = "Upload record not found"
          /\ inv'[i].pc = "idle"
          /\ files' = files /\ cases' = cases]_vars

\* C6 witness: the confirmation of a record that deleteFile or the reaper
\* removed was answered 404
C6_Witness ==
  /\ response.op = "confirmUpload" /\ response.status = 404
  /\ response.fileId \in {"f1", "f2"}
  /\ ~files[response.fileId].exists

\* C7: when updateCaseFileStats(C) has written, with no other request
\* served meanwhile, C's totals are the counts by capture type and the
\* size sum of the completed File records of C.
C7_TotalsAreCompletedFiles ==
  [][\A i \in Invs :
       StatsUpdate(i) => TotalsOf(cases'[inv[i].recCase], inv[i].recCase)]_vars

\* C7 witness: a recomputation wrote the totals of c1 while c1 had a
\* completed record of size 2 and a pending record
C7_Witness ==
  /\ "c1" \in synced /\ Quiescent
  /\ cases["c1"].totalFileSize >= 2
  /\ \E f \in FileIds : files[f].caseId = "c1" /\ files[f].status = "pending"

\* the timestamp of the case item itself (case_.updatedAt || case_.createdAt)
OwnTimestamp(case) ==
  IF case.updatedAt # NoTime THEN case.updatedAt ELSE case.createdAt

Aggregates(case) ==
  <<case.totalScreenshots, case.totalVideos, case.totalFileSize, case.lastActivity>>

\* C9: a recomputation for C that follows a recomputation for C, with no
\* File record written in between, leaves the four aggregate fields as
\* they are.
C9_RecomputeIdempotent ==
  [][\A i \in Invs :
       StatsUpdate(i) /\ inv[i].fresh /\ inv[i].recCase \in synced
       => Aggregates(cases'[inv[i].recCase]) = Aggregates(cases[inv[i].recCase])]_vars

\* C10: in every quiescent state reached by concurrent confirmations and
\* deletions whose recomputations all succeeded, the totals of every case
\* are those of its completed File records.
C10_QuiescentTotalsMatch ==
  Quiescent => \A c \in CaseIds : TotalsMatch(c)

\* C10, amended: ... the totals of a case are those of its completed File
\* records when the recomputation that wrote them last had read the Files
\* table after the last write of a File record (last writer wins).
C10_QuiescentTotalsMatchIfReadLast ==
  Quiescent => \A c \in synced : TotalsMatch(c)

\* C10 witness: both requests have been served on c1, the last
\* recomputation read the table as it is, and c1 has a completed file
C10_Witness ==
  /\ Quiescent /\ ops = 2 /\ "c1" \in synced
  /\ cases["c1"].totalScreenshots + cases["c1"].totalVideos >= 1

\* the counter of the case item for capture type t
Counter(case, t) ==
  IF t = "screenshot" THEN case.totalScreenshots ELSE case.totalVideos

\* the deleteFile of invocation i found the totals of its case equal to
\* those of the completed File records, the record it deleted included
FreshBeforeDelete(i) ==
  LET c == inv[i].recCase
      f == inv[i].recId
  IN /\ cases[c].totalFileSize = SizeOf(Completed(c) \ {f}) + inv[i].recSize
     /\ \A u \in CaptureTypes :
          Counter(cases[c], u) =
            Cardinality(OfType(c, u) \ {f})
              + (IF u = inv[i].recType THEN 1 ELSE 0)

\* the recomputation of a deleteFile that removed a completed record writes
DeleteRecomputes(i) ==
  StatsUpdate(i) /\ inv[i].op = "deleteFile" /\ inv[i].recStatus = "completed"

\* the totals of c after the step are those before it, less the size
\* and less one file of type t
Decreased(c, t, size) ==
  /\ cases'[c].totalFileSize = cases[c].totalFileSize - size
  /\ Counter(cases'[c], t) = Counter(cases[c], t) - 1
  /\ \A u \in CaptureTypes \ {t} : Counter(cases'[c], u) = Counter(cases[c], u)

\* C11: when deleteFile has removed a completed record of size s and type
\* t of case C and its recomputation writes (requests served one at a
\* time), C's totalFileSize is s less than before, its counter for t is 1
\* less and the other counter is unchanged.
C11_DeleteDecrements ==
  [][\A i \in Invs :
       DeleteRecomputes(i)
       => Decreased(inv[i].recCase, inv[i].recType, inv[i].recSize)]_vars

\* C11, amended: ... provided the totals of C were those of its completed
\* File records before the deletion.
C11_DeleteDecrementsFreshTotals ==
  [][\A i \in Invs :
       DeleteRecomputes(i) /\ FreshBeforeDelete(i)
       => Decreased(inv[i].recCase, inv[i].recType, inv[i].recSize)]_vars

\* C11 witness: deleteFile removed the completed video f2 of c1, whose
\* totals were right, another completed file remains, and the
\* recomputation is about to write the decreased totals
C11_Witness ==
  \E i \in Invs :
    /\ inv[i].op = "deleteFile" /\ inv[i].pc = "st_update"
    /\ inv[i].recId = "f2" /\ inv[i].recStatus = "completed"
    /\ inv[i].recType = "video" /\ inv[i].recSize >= 1
    /\ ~files["f2"].exists /\ Completed("c1") = {"f1"}
    /\ FreshBeforeDelete(i)
    /\ inv[i].tot = cases["c1"].totalFileSize - inv[i].recSize
    /\ inv[i].vid = 0 /\ inv[i].scr = 1

\* the confirmUpload of invocation i found the totals of its case equal to
\* those of the completed File records, the record it completed excluded
FreshBeforeConfirm(i) ==
  LET c == inv[i].recCase
      f == inv[i].fileId
  IN /\ cases[c].totalFileSize = SizeOf(Completed(c) \ {f})
     /\ \A u \in CaptureTypes :
          Counter(cases[c], u) = Cardinality(OfType(c, u) \ {f})

ScanCount(i) ==
  IF inv[i].pc = "cl_scan"
  THEN Cardinality(ExpiredUploads(files, inv[i].at))
  ELSE inv[i].found

\* C13: when a run of cleanupExpiredUploads ends (requests served one at
\* a time, scan and record deletes succeed), no pending File record with
\* expiresAt earlier than the scan time is left, whatever the bucket held
\* and whether or not the object deletes failed, and the run returns the
\* number of such records its scan found.
C13_ReaperRemovesAllExpired ==
  [][\A i \in Invs :
       inv[i].op = "cleanupExpiredUploads" /\ inv[i].pc # "idle"
       /\ inv'[i].pc = "idle"
       => /\ ExpiredUploads(files', inv[i].at) = {}
          /\ response'.op = "cleanupExpiredUploads"
          /\ response'.status = 200
          /\ response'.cleaned = ScanCount(i)]_vars

\* C13 witness: the run reaped the two expired sessions of c1; no object
\* had been uploaded for f2 and the delete of the object of f1 failed
C13_Witness ==
  /\ response.op = "cleanupExpiredUploads" /\ response.cleaned = 2
  /\ Quiescent
  /\ ~files["f1"].exists /\ ~files["f2"].exists
  /\ "k1" \in s3 /\ "k2" \notin s3

\* C14: a pending File record is deleted only by a step of
\* cleanupExpiredUploads; deleteFile with the fileKey of a pending record
\* leaves the record in the table.
C14_OnlyReaperDeletesPending ==
  [][\A f \in FileIds :
       files[f].exists /\ files[f].status = "pending" /\ ~files'[f].exists
       => \E i \in Invs : /\ inv[i].op = "cleanupExpiredUploads"
                          /\ inv[i].pc = "cl_del" /\ inv[i].cur = f]_vars

\* C15: whatever the interleaving of a reaper run with a confirmUpload of
\* the same record, no step of the reaper deletes a File record, or the
\* object of a File record, that is completed when the step is taken.
C15_ReaperSparesCompleted ==
  [][\A i \in Invs, f \in FileIds :
       inv[i].op = "cleanupExpiredUploads" /\ inv[i].cur = f
       /\ inv'[i] # inv[i]
       /\ files[f].exists /\ files[f].status = "completed"
       => /\ files'[f].exists
          /\ files[f].fileKey \in s3 => files[f].fileKey \in s3']_vars

\* C16: when the S3 delete of a deleteFile has failed, no later step of
\* that deleteFile removes the File record it found, so the object that
\* may be left keeps a record that names its key.
C16_FailedObjectDeleteKeepsRecord ==
  [][\A i \in Invs :
       inv[i].op = "deleteFile" /\ inv[i].s3Failed /\ inv'[i] # inv[i]
       /\ files[inv[i].recId].exists
       => files'[inv[i].recId].exists]_vars

\* C17: the four aggregate fields of an existing case item change only
\* in the step of updateCaseFileStats that writes them; updateCase,
\* bulkUpdateCases and updateCaseMetadata leave their stored values alone.
C17_OnlyRecomputationWritesAggregates ==
  [][\A c \in CaseIds :
       cases[c].exists /\ cases'[c].exists
       /\ Aggregates(cases'[c]) # Aggregates(cases[c])
       => \E i \in Invs : inv[i].pc = "st_update" /\ inv[i].recCase = c
                          /\ inv'[i].pc = "idle"]_vars

\* the case named by a request has an item in the Cases table
CaseExists(c) == c \in CaseIds /\ cases[c].exists

\* the request that the step answers, when it answers a getPresignedUrl
Req == response'.request
PresignAnswered == response'.op = "getPresignedUrl" /\ ops' = ops + 1

\* the step is the answer of invocation i after a lookup that succeeded
PresignLookedUp(i) ==
  PresignAnswered /\ PresignCase(i, Req[1], Req[2], Req[3], Req[4])

\* C18: getPresignedUrl with a caseId that has no Case record answers
\* with the not-found error (so with no upload URL, which only the 200
\* response carries) and writes no File record.
C18_MissingCaseNotFound ==
  [][PresignAnswered /\ ~CaseExists(Req[1])
       => /\ response'.status = 404 /\ response'.error = "Case not found"
          /\ files' = files /\ s3' = s3]_vars

\* C18 witness: a request for the unknown case c0, valid otherwise, was
\* answered 404 and the table holds the same sessions as before
C18_Witness ==
  /\ response.op = "getPresignedUrl"
  /\ response.request = <<"c0", "screenshot", "image/png", 0>>
  /\ response.status = 404
  /\ ~files["f3"].exists /\ files["f1"].exists

\* the allow-lists as the claim gives them
ScreenshotTypes == {"image/png", "image/jpeg", "image/webp", "image/gif"}
VideoTypes == {"video/webm", "video/mp4", "video/quicktime"}
ListOf(t) == IF t = "screenshot" THEN ScreenshotTypes ELSE VideoTypes

\* C19: for an existing case (found by the lookup) getPresignedUrl
\* answers with the file-type validation error and writes no File record
\* when fileType is not in the list of the captureType, in particular
\* when it is in the list of the other captureType, and does not answer
\* with that error when fileType is in the list.
C19_FileTypeAllowList ==
  [][\A i \in Invs :
       PresignLookedUp(i) /\ CaseExists(Req[1])
       => LET t == Req[2]
              ft == Req[3]
          IN /\ ft \notin ListOf(t)
                => /\ response'.status = 400
                   /\ response'.error = "Invalid file type"
                   /\ files' = files
             /\ ft \in ListOf(t) => response'.error # "Invalid file type"
             /\ \A u \in CaptureTypes \ {t} :
                  ft \in ListOf(u) => response'.error = "Invalid file type"]_vars

\* C19 witness: video/mp4 was refused for a screenshot of the existing
\* case c1 and no record was written
C19_Witness ==
  /\ response.op = "getPresignedUrl"
  /\ response.request[1] = "c1" /\ response.request[2] = "screenshot"
  /\ response.request[3] = "video/mp4"
  /\ response.status = 400 /\ response.error = "Invalid file type"
  /\ ~files["f3"].exists

\* C20: for an existing case and an allowed fileType, getPresignedUrl
\* answers with the size validation error and writes no File record when
\* a declared fileSize exceeds 104857600, and accepts the request (answers
\* 200) when the fileSize is 104857600 or is omitted.
C20_FileSizeLimit ==
  [][\A i \in Invs :
       PresignLookedUp(i) /\ CaseExists(Req[1]) /\ Req[3] \in ListOf(Req[2])
       => IF Req[4] > 104857600
          THEN /\ response'.status = 400
               /\ response'.error = "File size exceeds maximum limit"
               /\ files' = files
          ELSE response'.status = 200]_vars

\* C21: getPresignedUrl for an existing case (found by the lookup), with
\* an allowed fileType and a fileSize within the limit, answers 200 and
\* stores exactly one new File record: pending, of that case and capture
\* type, without uploadedAt, expiring 3600 seconds after the creation.
C21_SessionCreated ==
  [][\A i \in Invs :
       PresignLookedUp(i) /\ CaseExists(Req[1]) /\ Req[3] \in ListOf(Req[2])
       /\ Req[4] <= 104857600
       => /\ response'.status = 200
          /\ \E f \in FileIds :
               /\ ~files[f].exists /\ files'[f].exists
               /\ files'[f].status = "pending"
               /\ files'[f].caseId = Req[1]
               /\ files'[f].captureType = Req[2]
               /\ files'[f].uploadedAt = NoTime
               /\ files'[f].expiresAt = now + 3600
               /\ \A g \in FileIds \ {f} : files'[g] = files[g]]_vars

\* the recomputation that confirmUpload or deleteFile awaits throws
RecomputationFails(i) ==
  /\ inv[i].op \in {"confirmUpload", "deleteFile"}
  /\ StatsQueryFail(i) \/ StatsUpdateFail(i)

\* C23: when the recomputation awaited by confirmUpload (after its write of
\* 'completed') or by deleteFile (after its delete of the record) fails,
\* the handler answers 200, the File record stays completed (resp. stays
\* deleted) and neither table is written: only the case totals are stale.
C23_RecomputationFailureKeepsSuccess ==
  [][\A i \in Invs :
       RecomputationFails(i)
       => /\ response'.status = 200 /\ response'.op = inv[i].op
          /\ files' = files /\ cases' = cases /\ s3' = s3
          /\ inv[i].op = "confirmUpload"
             => /\ files'[inv[i].fileId].exists
                /\ files'[inv[i].fileId].status = "completed"
                /\ files'[inv[i].fileId].fileSize = inv[i].size
          /\ inv[i].op = "deleteFile" => ~files'[inv[i].recId].exists]_vars

\* f1 was uploaded and confirmed with 200 while the totals of its case do
\* not count it: the recomputation of this confirmation failed
C23_Witness ==
  /\ Quiescent
  /\ response.op = "confirmUpload" /\ response.status = 200
  /\ response.fileId = "f1"
  /\ files["f1"].exists /\ files["f1"].status = "completed"
  /\ files["f1"].fileKey \in s3
  /\ ~TotalsMatch("c1")

\* invocation i is a confirmUpload of record f with f's own key that has
\* read the record
Confirming(i, f) ==
  /\ inv[i].op = "confirmUpload" /\ inv[i].fileId = f
  /\ inv[i].pc \notin {"idle", "cu_get"}
  /\ files[f].exists /\ inv[i].fileKey = files[f].fileKey

\* C24: confirmations of one pending, unexpired record served at once, the
\* object being in the bucket: each of them returns 200; each write leaves
\* the one record of that id completed with the actualFileSize of the writer
\* and touches no other record (so the last writer's size stays); no step
\* turns a completed record back to pending or adds a record.
C24_ConcurrentConfirmsBothSucceed ==
  [][\A i \in Invs, f \in FileIds :
       /\ Confirming(i, f) /\ inv[i].fileKey \in s3 /\ inv'[i].pc = "idle"
          => response'.status = 200 /\ response'.op = "confirmUpload"
             /\ response'.fileId = f /\ files'[f].status = "completed"
       /\ Confirming(i, f) /\ inv[i].pc = "cu_update" /\ inv'[i].pc # "cu_update"
          => /\ files'[f].exists /\ files'[f].status = "completed"
             /\ files'[f].fileSize = inv[i].size
             /\ \A g \in FileIds \ {f} : files'[g] = files[g]
       /\ files[f].exists /\ files[f].status = "completed"
          => files'[f].exists /\ files'[f].status = "completed"
       /\ files'[f].exists = files[f].exists]_vars

\* both invocations read f1 pending and both have written it completed,
\* with different sizes: the record holds the size of one of them
C24_Witness ==
  /\ \A i \in Invs : /\ inv[i].op = "confirmUpload" /\ inv[i].fileId = "f1"
                     /\ inv[i].fileKey = "k1" /\ inv[i].recStatus = "pending"
                     /\ inv[i].pc \in {"st_query", "st_update"}
  /\ inv[1].size # inv[2].size
  /\ files["f1"].status = "completed"
  /\ files["f1"].fileSize = inv[1].size

\* the ids in a list of the response
Ids(q) == {q[k] : k \in 1..Len(q)}

\* the completed File records of case c, of capture type t when t is given
Matching(c, t) ==
  {f \in Completed(c) : t # "none" => files[f].captureType = t}

\* invocation i returns the listing
Listed(i) ==
  /\ inv[i].op = "getCaseFiles" /\ inv'[i].pc = "idle"
  /\ response'.status = 200

\* C25: every file in the page getCaseFiles returns is an existing File
\* record of the requested case with status completed (and of the requested
\* captureType when one is given), no pending record is listed, and the
\* summary is the count, the counts per capture type and the size sum of
\* exactly the completed records of that case that match the filter.
C25_ListsCompletedOfCase ==
  [][\A i \in Invs :
       Listed(i)
       => LET c == response'.request[1]
              t == response'.request[2]
          IN /\ c = inv[i].recCase /\ t = inv[i].recType
             /\ Ids(response'.listed) \subseteq Matching(c, t)
             /\ \A f \in Ids(response'.listed) : files[f].status # "pending"
             /\ response'.summary =
                  <<Cardinality(Matching(c, t)),
                    Cardinality(Matching(c, t) \cap OfType(c, "screenshot")),
                    Cardinality(Matching(c, t) \cap OfType(c, "video")),
                    SizeOf(Matching(c, t))>>]_vars

\* a listing of c1 filtered by video returned the completed video f2 alone
\* and counted one file, while the case also holds the completed screenshot f1
C25_Witness ==
  /\ response.op = "getCaseFiles" /\ response.status = 200
  /\ response.request = <<"c1", "video">>
  /\ response.listed = <<"f2">>
  /\ response.summary[1] = 1
  /\ files["f1"].status = "completed" /\ files["f1"].captureType = "screenshot"

\* C26: when signing the download URL of a file of the page fails, the
\* loop goes on: that file alone is added to those with a null
\* downloadUrl, the page keeps all its files, and the listing returned at
\* the end of the loop is a 200 with the whole page, the null URLs being
\* exactly those of the files whose signing failed.
C26_SigningFailureDegrades ==
  [][\A i \in Invs :
       inv[i].pc = "gf_sign"
       => /\ FilesSignFail(i)
             => IF inv'[i].pc = "idle"
                THEN response'.nullUrls = inv[i].nullUrls \cup {inv[i].cur}
                ELSE inv'[i].nullUrls = inv[i].nullUrls \cup {inv[i].cur}
          /\ inv'[i].pc = "gf_sign" => inv'[i].paged = inv[i].paged
          /\ inv'[i].pc = "gf_sign" /\ ~FilesSignFail(i)
             => inv'[i].nullUrls = inv[i].nullUrls
          /\ inv'[i].pc = "idle"
             => /\ response'.status = 200
                /\ response'.listed = inv[i].paged
                /\ response'.nullUrls \subseteq Ids(inv[i].paged)
                /\ ~FilesSignFail(i)
                   => response'.nullUrls = inv[i].nullUrls]_vars

\* a page of two files was returned, one with a null downloadUrl and one
\* with its signed URL
C26_Witness ==
  /\ response.op = "getCaseFiles" /\ response.status = 200
  /\ Len(response.listed) = 2
  /\ Cardinality(response.nullUrls) = 1
  /\ response.nullUrls \subseteq Ids(response.listed)

\* a step of cleanupExpiredUploads
ReaperStep ==
  \E i \in Invs :
    /\ inv'[i] # inv[i]
    /\ inv[i].op = "cleanupExpiredUploads"
       \/ inv'[i].op = "cleanupExpiredUploads"

\* some invocation is in updateCaseFileStats
Recomputing(iv) == \E i \in Invs : iv[i].pc \in {"st_query", "st_update"}

\* C27: no step of getPresignedUrl and no step of cleanupExpiredUploads,
\* whatever its outcome, changes an item of the Cases table or starts
\* updateCaseFileStats.
C27_SessionAndReaperLeaveCases ==
  [][PresignAnswered \/ ReaperStep
     => cases' = cases /\ ~Recomputing(inv')]_vars

\* the reaper has deleted the expired record f1 and a session request was
\* answered after it
C27_Witness ==
  /\ response.op = "getPresignedUrl" /\ response.status # 0
  /\ ~files["f1"].exists
  /\ ops = 2

\* the header is 'Bearer <token>' and the token verifies at time t
BearerVerifies(h, t) ==
  /\ Len(h) = 2 /\ h[1] = "Bearer"
  /\ h[2] \in {"expiring", "valid"}
  /\ h[2] = "expiring" => t < TickLen

\* the wrapped handler is invoked in this step
Invoked(i) == inv[i].pc = "idle" /\ inv'[i].pc = "handler"

\* C28: a request to a handler exported through requireAuth invokes the
\* handler only if its Authorization header is 'Bearer <token>' with a token
\* that verifies; every other request is answered 401 in that step, without
\* the handler being invoked and without a change of the tables or the
\* bucket.
C28_RequireAuthGuards ==
  [][ops' = ops + 1
     => IF \E i \in Invs : Invoked(i)
        THEN \E i \in Invs : /\ Invoked(i)
                             /\ inv'[i].op \in RequireAuthExports
                             /\ BearerVerifies(inv'[i].header, now)
                             /\ inv'[i].user # "none"
                             /\ response' = response
        ELSE /\ ~BearerVerifies(response'.request, now)
             /\ response'.status = 401
             /\ response'.op \in RequireAuthExports
             /\ inv' = inv
             /\ files' = files /\ cases' = cases /\ s3' = s3]_vars

\* a request with a correctly signed token that has expired was answered 401
C28_Witness ==
  /\ response.status = 401 /\ response.error = "Invalid or expired token"
  /\ response.request = <<"Bearer", "expiring">>
  /\ now >= TickLen
  /\ Quiescent

\* C29: createCase never replaces an existing Case item: when the id it
\* generated is in use, the PutCommand is refused and the answer is 409
\* with the Cases table unchanged; whatever the id, every item that existed
\* before the request is the same after it.
C29_CreateNeverOverwrites ==
  [][response'.op = "createCase" /\ ops' = ops + 1
     => /\ \A c \in DOMAIN cases : cases[c].exists => cases'[c] = cases[c]
        /\ \A i \in Invs :
             CreateCase(i, response'.request[1])
             /\ cases[response'.request[1]].exists
             => response'.status = 409 /\ cases' = cases]_vars

\* createCase generated the id of c1, which holds totals of a completed
\* file, and was answered 409; a new case was created before
C29_Witness ==
  /\ response.op = "createCase" /\ response.status = 409
  /\ response.request = <<"c1">>
  /\ cases["c1"].totalFileSize > 0
  /\ cases["c3"].exists

C31_FailedWriteKeepsPending ==
  [][\A i \in Invs :
       ConfirmUpdateFail(i)
       => /\ response'.op = "confirmUpload" /\ response'.status >= 400
          /\ files' = files /\ cases' = cases
          /\ ~Recomputing(inv')
          /\ inv[i].recStatus = "pending"
             => /\ files'[inv[i].fileId].exists
                /\ files'[inv[i].fileId].status = "pending"
                /\ files'[inv[i].fileId].uploadedAt = NoTime
                /\ files'[inv[i].fileId].fileSize = inv[i].recSize]_vars

\* the confirmation of the uploaded file f1 was answered with the store's
\* error and f1 is pending
C31_Witness ==
  /\ Quiescent
  /\ response.op = "confirmUpload" /\ response.status = 503
  /\ response.fileId = "f1"
  /\ "k1" \in s3
  /\ files["f1"].status = "pending" /\ files["f1"].uploadedAt = NoTime
  /\ TotalsMatch("c1")

\* C32: when the GetCommand of checkCaseExists fails for a case that
\* exists, getPresignedUrl answers with a 5xx error, not with 404, and
\* creates no File record.
C32_LookupFailureIsUnavailable ==
  [][\A i \in Invs :
       /\ PresignAnswered
       /\ PresignCaseFail(i, Req[1], Req[2], Req[3], Req[4])
       /\ CaseExists(Req[1])
       => /\ response'.status >= 500
          /\ response'.status # 404
          /\ files' = files]_vars

\* C33: in every reachable state every File record in the table has status
\* 'pending' or 'completed', also a record that a confirmation wrote after
\* the item had been deleted.
C33_StatusPendingOrCompleted ==
  \A f \in FileIds :
    files[f].exists => files[f].status \in {"pending", "completed"}

\* a confirmation has written f1 after its item was deleted: the item has
\* a status and neither caseId nor fileKey
C33_Witness ==
  /\ files["f1"].exists /\ files["f1"].status = "completed"
  /\ files["f1"].caseId = "none" /\ files["f1"].fileKey = "none"
  /\ files["f2"].exists /\ files["f2"].status = "pending"

\* C35: in every reachable state the caseId of every File record, pending
\* or completed, is the id of an existing Case record.
C35_FilesReferenceExistingCase ==
  \A f \in FileIds : files[f].exists => CaseExists(files[f].caseId)

\* the File records of case c, of any status, read off the table
RecordsOf(c) == {f \in FileIds : files[f].exists /\ files[f].caseId = c}

\* C36: a deleteCase of a case that has a File record of any status is
\* answered with an error and leaves the Case record in place; no step of
\* deleteCase removes a case that a File record references.
C36_DeleteCaseRefusedWithFiles ==
  [][\A i \in Invs :
       /\ inv[i].op = "deleteCase" /\ inv'[i].pc = "idle"
       /\ CaseExists(inv[i].recCase) /\ RecordsOf(inv[i].recCase) # {}
       => response'.status >= 400 /\ cases' = cases]_vars

\* the expiry of record f lies before the instant t
Past(f, t) == files[f].expiresAt # NoTime /\ files[f].expiresAt < t

\* the records the scan of invocation i has selected in this step
Selected(i) ==
  IF inv'[i].pc = "idle" THEN {}
  ELSE inv'[i].todo \cup {inv'[i].cur}

\* C37: a reaper scan taken at instant t selects a pending record exactly
\* when its expiresAt lies before t, and the expiry check of a confirmUpload
\* that runs at t rejects a pending record exactly when its expiresAt lies
\* before t: the two agree at every instant, and at t = expiresAt the record
\* is neither selected nor rejected.
C37_ReaperAndConfirmAgreeOnExpiry ==
  [][\A i \in Invs :
       /\ inv[i].pc = "cl_scan" /\ inv'[i].pc # "cl_scan"
          => \A f \in FileIds :
               files[f].exists /\ files[f].status = "pending"
               => /\ f \in Selected(i) <=> Past(f, inv[i].at)
                  /\ files[f].expiresAt = inv[i].at => f \notin Selected(i)
       /\ inv[i].pc = "cu_get" /\ inv'[i].pc # "cu_get" /\ ~ConfirmGetFail(i)
          /\ files[inv[i].fileId].exists
          /\ files[inv[i].fileId].status = "pending"
          => /\ (inv'[i].pc = "idle" /\ response'.error = "Upload session expired")
                <=> Past(inv[i].fileId, now)
             /\ files[inv[i].fileId].expiresAt = now => inv'[i].pc = "cu_probe"]_vars

\* at the instant f1 expires the reaper has found nothing to clean and a
\* confirmation of f1 has passed its expiry check
C37_Witness ==
  /\ now = files["f1"].expiresAt
  /\ files["f1"].status = "pending" /\ files["f2"].status = "pending"
  /\ response.op = "cleanupExpiredUploads" /\ response.cleaned = 0
  /\ \E i \in Invs : /\ inv[i].op = "confirmUpload" /\ inv[i].fileId = "f1"
                     /\ inv[i].pc = "cu_probe"

\* what a successful updateCaseFileStats(c) would store now
Recomputed(c) == StatsWrite(cases[c], files, CompletedFiles(files, c), now)

\* C38: the metadata getCase returns when its query of the files succeeds
\* (totalScreenshots, totalVideos, totalFileSize, lastActivity) is what a
\* successful updateCaseFileStats of that case would store at that instant.
C38_GetCaseMatchesRecomputation ==
  [][\A i \in Invs :
       GetCaseQuery(i)
       => response'.summary =
            <<Recomputed(inv[i].recCase).totalScreenshots,
              Recomputed(inv[i].recCase).totalVideos,
              Recomputed(inv[i].recCase).totalFileSize,
              Recomputed(inv[i].recCase).lastActivity>>]_vars

\* the uploads of the scan that the loop of run i has not finished
Unfinished(l) == IF l.pc = "idle" THEN {} ELSE l.todo \cup {l.cur}

\* C39: when the DeleteCommand of one expired upload fails in the reaper,
\* the record stays, the counter is not advanced and the loop takes the
\* next upload; the run ends only when no scanned upload is left, and
\* (requests served one at a time) the count it returns is the number of
\* scanned records minus those whose delete failed, which are the expired
\* records still in the table.
C39_FailedDeleteDoesNotStopReaper ==
  [][\A i \in Invs :
       /\ CleanupItemFail(i)
          => /\ files' = files
             /\ IF inv'[i].pc = "idle"
                THEN response'.cleaned = inv[i].cleaned /\ inv[i].todo = {}
                ELSE /\ inv'[i].cleaned = inv[i].cleaned
                     /\ inv'[i].pc = "cl_s3"
                     /\ Unfinished(inv'[i]) = inv[i].todo
       /\ inv[i].op = "cleanupExpiredUploads" /\ inv[i].pc \in {"cl_s3", "cl_del"}
          /\ inv'[i].pc = "idle"
          => /\ inv[i].todo = {}
             /\ response'.status = 200
             /\ response'.cleaned =
                  inv[i].found - Cardinality(ExpiredUploads(files', inv[i].at))]_vars

\* a run scanned the two expired sessions, the delete of the record of f1
\* failed and f2 was reaped: the run returned 1
C39_Witness ==
  /\ Quiescent
  /\ response.op = "cleanupExpiredUploads" /\ response.cleaned = 1
  /\ ops = 1
  /\ files["f1"].exists /\ files["f1"].status = "pending"
  /\ ~files["f2"].exists

\* the completed File records, of case c when a caseId is given
CompletedOf(c) ==
  {f \in FileIds : /\ files[f].exists /\ files[f].status = "completed"
                   /\ c # "none" => files[f].caseId = c}

\* C40: a getUploadStats whose read of the store succeeds answers 200 with
\* the count, the counts per capture type and the size sum of the completed
\* File records: of all cases without a caseId, of that case with a caseId.
C40_UploadStatsCountCompleted ==
  [][\A i \in Invs :
       /\ response'.op = "getUploadStats" /\ ops' = ops + 1
       /\ UploadStats(i, Req[1])
       => /\ response'.status = 200
          /\ response'.summary =
               <<Cardinality(CompletedOf(Req[1])),
                 Cardinality({f \in CompletedOf(Req[1]) :
                                files[f].captureType = "screenshot"}),
                 Cardinality({f \in CompletedOf(Req[1]) :
                                files[f].captureType = "video"}),
                 SizeOf(CompletedOf(Req[1]))>>]_vars

====
